---- MODULE Spec2Model ----
(***************************************************************************)
(* pytouchlinesl: the Module snapshot cache (module.py), the Zone views    *)
(* and their mutations (zone.py), the TouchlineSL account object           *)
(* (touchlinesl.py) and RothAPI with its login and the payloads it builds  *)
(* (client/client.py), as state machines over one set of variables.        *)
(*                                                                         *)
(* A caller is an asyncio task.  A task runs alone until it awaits the     *)
(* network (variable running); the clock and the remote service move on    *)
(* at any time.  Every snapshot the client parses is a new object: its     *)
(* records carry the number of the fetch that produced them (snap).        *)
(***************************************************************************)
EXTENDS Integers, Sequences, FiniteSets, TLC

\* ------------------------------------------------------------- bounds
NZones == 2          \* zone records of the remote module, at most
NSchedules == 2      \* global schedules of the remote module, at most
MaxCalls == 3        \* public calls made in one behaviour of one caller
MaxCallsOverlapping == 4 \* public calls made in one behaviour of two callers
MaxRemoteChanges == 1 \* changes made at the remote by somebody else
MaxTicks == 1        \* clock advances in one behaviour
StartTime == 100000  \* round(time.time() * 1000) when the Module is built

\* ------------------------------------------------- program constants
DefaultCacheValidity == 30      \* Module.__init__(cache_validity=30)
Sentinel == 6100                \* the start of an empty interval

\* cache_validity values a Module is built with
ValidityChoices == {0, DefaultCacheValidity}
\* clock advances (ms): less than 30 ms, and more than 30 ms but less than 30 s
ShortTick == 20
LongTick == 1000
MsPerSecond == 1000

Modes == {"constantTemp", "globalSchedule", "localSchedule", "timeLimit"}
ZoneStates == {"zoneOff", "noAlarm"}
ZoneNames == {"Kitchen", "Hall"}

\* ------------------------------------------------------------ records
\* ZoneModel, flattened: zone.id, description.name, zone.zone_state,
\* mode.mode, mode.schedule_index, mode.id
ZoneModel(id, name, st, mode, idx) ==
    [id |-> id, name |-> name, zone_state |-> st, mode |-> mode,
     schedule_index |-> idx, mode_id |-> id + 10]

\* the fields of ZoneAttributesModel and ZoneFlagsModel the properties of a
\* Zone read, besides zone_state: << >> is None for the Optional ones
ZoneAttributesModel(cur, set, hum, sig, bat, relay, alg) ==
    [current_temperature |-> cur, set_temperature |-> set, humidity |-> hum,
     signal_strength |-> sig, battery_level |-> bat, relay_state |-> relay,
     algorithm |-> alg]

ScheduleIntervalModel(start, stop, temp) ==
    [start |-> start, stop |-> stop, temp |-> temp]

EmptyInterval == ScheduleIntervalModel(Sentinel, Sentinel, 0)

\* GlobalScheduleModel.  The id of one schedule is the index of another.
GlobalSchedules ==
    << [id |-> 1, index |-> 0, name |-> "Day",
        p0_days |-> <<"Mon", "Tue">>, p0_setback_temp |-> 180,
        p0_intervals |-> << ScheduleIntervalModel(360, 480, 210), EmptyInterval,
                            ScheduleIntervalModel(960, 1320, 215) >>,
        p1_days |-> <<"Sat">>, p1_setback_temp |-> 170,
        p1_intervals |-> << EmptyInterval >>],
       [id |-> 0, index |-> 1, name |-> "Day",
        p0_days |-> <<"Mon">>, p0_setback_temp |-> 160,
        p0_intervals |-> << >>,
        p1_days |-> <<"Sun">>, p1_setback_temp |-> 150,
        p1_intervals |-> << EmptyInterval, ScheduleIntervalModel(480, 600, 200) >>],
       [id |-> 7, index |-> 2, name |-> "Night",
        p0_days |-> << >>, p0_setback_temp |-> 140,
        p0_intervals |-> << EmptyInterval >>,
        p1_days |-> << >>, p1_setback_temp |-> 140,
        p1_intervals |-> << ScheduleIntervalModel(0, 60, 190) >>] >>

\* ModuleModel as the client parses it from response number n
ModuleModel(zs, ss, n) ==
    [id |-> n,
     zones |-> [k \in 1..Len(zs) |-> [snap |-> n] @@ zs[k]],
     scheds |-> [k \in 1..Len(ss) |-> [snap |-> n] @@ ss[k]]]

\* Module.id, the udid of the module
ModuleUdid == "udid-1"

\* self._raw_data before the first fetch (the attribute is not set)
NoData == [id |-> 0, zones |-> << >>, scheds |-> << >>]

NoPayload == [kind |-> "none"]

\* ------------------------------------------------------------- state
VARIABLES
    now,             \* round(time.time() * 1000), the clock the Module reads
    ticks,           \* how often the clock has advanced
    remote,          \* the module at the Roth service: [zones, scheds]
    nchanges,        \* changes made at the remote by somebody else
    nsnap,           \* responses parsed into a ModuleModel so far
    cache_validity,  \* Module._cache_validity
    _raw_data,       \* Module._raw_data
    _last_fetched,   \* Module._last_fetched
    _zones,          \* Module._zones: the list of Zone views
    _schedules,      \* Module._schedules
    task,            \* per caller: where its call stands, and its last result
    running,         \* the task holding the event loop, 0 when all are suspended
    callers,         \* the tasks that call into the Module
    ncalls,          \* public calls made so far
    invalidated,     \* "none", or what reset the cache since the last read began
    mutSnap          \* nsnap when the last mutation returned

\* a Zone looked at on its own, and a TouchlineSL account object
VARIABLES
    zview,           \* a Zone view whose attributes are read
    got,             \* the outcome of the last attribute access on zview
    tsl,             \* the TouchlineSL object: how __init__ ended, _client, _modules
    log,             \* the warnings logged by touchlinesl.py
    account,         \* the modules of the account at the Roth service
    acall,           \* the call on the TouchlineSL object, and its last result
    nlist            \* answers of client.modules() so far

\* a RothAPI client looked at on its own, and the requests it makes
VARIABLES
    api,             \* the RothAPI object: _username, _password, _user_id, _token
    ctask,           \* per caller of the client: where its call stands
    sent,            \* the requests made with an authorization header, in order
    nlogin           \* logins the Roth service has answered with a token

moduleVars == << now, ticks, remote, nchanges, nsnap, cache_validity, _raw_data,
                 _last_fetched, _zones, _schedules, task, running, callers, ncalls,
                 invalidated, mutSnap >>
zoneVars == << zview, got >>
accountVars == << tsl, log, account, acall, nlist >>
clientVars == << api, ctask, sent, nlogin >>
\* what the steps of a Module leave alone
notModule == << zoneVars, accountVars, clientVars >>

vars == << moduleVars, zoneVars, accountVars, clientVars >>

ZoneOps == {"zones", "zone", "zone_by_name"}
ScheduleOps == {"schedules", "schedule", "schedule_by_idx", "schedule_by_name"}
ReadOps == ZoneOps \cup ScheduleOps
MutationOps == {"set_temperature", "set_schedule"}

\* keys the lookups are called with: present ones and absent ones
ZoneIdKeys == 1..(NZones + 1)
ZoneNameKeys == ZoneNames \cup {"Foobar"}
ScheduleIdKeys == {0, 1234}
ScheduleIdxKeys == {0, 5}
SetScheduleIdKeys == {0, 1, 1234}
ScheduleNameKeys == {"Day", "Foobar"}
\* temperatures set_temperature is called with, in hundredths of a degree
Temperatures == {2250, 1804, -55}

\* the cache of a Module that has fetched nothing
NoCache == [raw |-> NoData, last |-> 0, zl |-> << >>, sl |-> << >>]

\* a caller that has not called yet
IdleTask ==
    [pc |-> "idle", op |-> "none", include_off |-> FALSE, refresh |-> FALSE,
     ikey |-> 0, skey |-> "", frame |-> "none", data_refresh |-> FALSE,
     data |-> NoData, resp |-> NoData, i |-> 0,
     nfetch |-> 0, after |-> "none", expired |-> FALSE, snap0 |-> 0,
     status |-> "none",
     rviews |-> << >>, rscheds |-> << >>, target |-> << >>,
     request |-> NoPayload, before |-> NoCache]

\* ------------------------------------------------------ zone.py: Zone
\* Zone.__init__
Zone(zone_data, schedule) == [_raw_data |-> zone_data, _schedule |-> schedule]

\* Zone.id, Zone.name, Zone.mode
ZoneId(z) == z._raw_data.id
ZoneName(z) == z._raw_data.name
ZoneMode(z) == z._raw_data.mode

\* Zone.enabled
enabled(z) == z._raw_data.zone_state # "zoneOff"

\* a faulty variant of ZoneSchedule: the mode is not looked at
ZoneScheduleMutant(z) == z._schedule

\* Zone.schedule: << >> is None
ZoneSchedule(z) == IF ZoneMode(z) = "constantTemp" THEN << >> ELSE z._schedule

\* a float, as the decimal number Python shows: sign, whole part, tenths
Float(neg, whole, tenth) == [neg |-> neg, whole |-> whole, tenth |-> tenth]

\* float(int(n) / 10), n an int
TenthsToDegrees(n) ==
    LET a == IF n < 0 THEN -n ELSE n
    IN  Float(n < 0, a \div 10, a % 10)

\* float(int(n)), n an int
WholeFloat(n) == Float(n < 0, IF n < 0 THEN -n ELSE n, 0)

\* Zone.battery_level
ZoneBatteryLevel(z) == z._raw_data.battery_level

\* Zone.temperature: `if current_temperature:` is false for None and for 0
ZoneTemperature(z) ==
    IF z._raw_data.current_temperature # << >>
       /\ z._raw_data.current_temperature[1] # 0
    THEN << TenthsToDegrees(z._raw_data.current_temperature[1]) >>
    ELSE << >>

\* Zone.target_temperature
ZoneTargetTemperature(z) == TenthsToDegrees(z._raw_data.set_temperature)

\* Zone.humidity
ZoneHumidity(z) == WholeFloat(z._raw_data.humidity)

\* Zone.relay_on
ZoneRelayOn(z) == z._raw_data.relay_state = "on"

\* Zone.algorithm
ZoneAlgorithm(z) == z._raw_data.algorithm

\* the properties class Zone defines
ZoneProperties ==
    {"name", "id", "battery_level", "temperature", "target_temperature",
     "humidity", "mode", "enabled", "schedule", "relay_on", "algorithm"}

\* getattr(z, attr) for a name that is no instance attribute and no method:
\* the value of the property, AttributeError when the class has none of
\* that name.  The value is in a sequence of its own, << >> for None.
getattr(z, attr) ==
    IF attr \notin ZoneProperties
    THEN [attr |-> attr, status |-> "AttributeError", value |-> << >>]
    ELSE [attr |-> attr, status |-> "ok",
          value |-> CASE attr = "name" -> << ZoneName(z) >>
                      [] attr = "id" -> << ZoneId(z) >>
                      [] attr = "battery_level" -> ZoneBatteryLevel(z)
                      [] attr = "temperature" -> ZoneTemperature(z)
                      [] attr = "target_temperature" -> << ZoneTargetTemperature(z) >>
                      [] attr = "humidity" -> << ZoneHumidity(z) >>
                      [] attr = "mode" -> << ZoneMode(z) >>
                      [] attr = "enabled" -> << enabled(z) >>
                      [] attr = "schedule" -> ZoneSchedule(z)
                      [] attr = "relay_on" -> << ZoneRelayOn(z) >>
                      [] attr = "algorithm" -> << ZoneAlgorithm(z) >>]

\* ------------------------------------------------- module.py: lookups
\* next(matches, None), matches being the generator (x for x in seq if ...)
\* in the order of seq: << >> is None
next(matches) == IF matches = << >> THEN << >> ELSE << Head(matches) >>

\* a faulty variant of schedule_by_idx: the index is compared with the id
schedule_by_idxMutant(schedules, schedule_idx) ==
    LET P(s) == s.id = schedule_idx IN next(SelectSeq(schedules, P))

\* the search of Module.schedule_by_idx
schedule_by_idx(schedules, schedule_idx) ==
    LET P(s) == s.index = schedule_idx IN next(SelectSeq(schedules, P))

\* the search of Module.schedule
schedule(schedules, schedule_id) ==
    LET P(s) == s.id = schedule_id IN next(SelectSeq(schedules, P))

\* the search of Module.schedule_by_name
schedule_by_name(schedules, schedule_name) ==
    LET P(s) == s.name = schedule_name IN next(SelectSeq(schedules, P))

\* the search of Module.zone
zone(zones, zone_id) ==
    LET P(z) == ZoneId(z) = zone_id IN next(SelectSeq(zones, P))

\* the search of Module.zone_by_name
zone_by_name(zones, zone_name) ==
    LET P(z) == ZoneName(z) = zone_name IN next(SelectSeq(zones, P))

\* the end of Module.zones: the list itself, or the enabled views
zones(zl, include_off) == IF include_off THEN zl ELSE SelectSeq(zl, enabled)

\* the body of the loop of Module.zones, for the records from i on, while
\* self._schedules is not empty (schedule_by_idx then awaits nothing)
RECURSIVE BuildViews(_, _, _, _)
BuildViews(zs, i, sl, zl) ==
    IF i > Len(zs) THEN zl
    ELSE BuildViews(zs, i + 1, sl,
                    Append(zl, Zone(zs[i], schedule_by_idx(sl, zs[i].schedule_index))))

\* what a finished call leaves of its task: the call, its arguments, its result
Returned(tk, status, rviews, rscheds) ==
    [tk EXCEPT !.pc = "idle", !.frame = "none", !.data_refresh = FALSE,
               !.data = NoData, !.resp = NoData, !.i = 0, !.target = << >>,
               !.status = status, !.rviews = rviews, !.rscheds = rscheds,
               !.before = NoCache]

\* a faulty variant of ZonesReturn: the lookups search the enabled zones only
ZonesReturnMutant(tk, zl, sl) ==
    [tk |-> Returned(tk, "ok",
                     CASE tk.op = "zones" -> zones(zl, tk.include_off)
                       [] tk.op = "zone" -> zone(zones(zl, FALSE), tk.ikey)
                       [] tk.op = "zone_by_name" -> zone_by_name(zones(zl, FALSE), tk.skey),
                     << >>),
     zl |-> zl, sl |-> sl]

\* the return of zones(), and of zone() / zone_by_name() on top of it
ZonesReturn(tk, zl, sl) ==
    [tk |-> Returned(tk, "ok",
                     CASE tk.op = "zones" -> zones(zl, tk.include_off)
                       [] tk.op = "zone" -> zone(zones(zl, TRUE), tk.ikey)
                       [] tk.op = "zone_by_name" -> zone_by_name(zones(zl, TRUE), tk.skey),
                     << >>),
     zl |-> zl, sl |-> sl]

\* the return of schedules(), and of the schedule lookups on top of it
SchedulesReturn(tk, zl, sl) ==
    [tk |-> Returned(tk, "ok", << >>,
                     CASE tk.op = "schedules" -> sl
                       [] tk.op = "schedule" -> schedule(sl, tk.ikey)
                       [] tk.op = "schedule_by_idx" -> schedule_by_idx(sl, tk.ikey)
                       [] tk.op = "schedule_by_name" -> schedule_by_name(sl, tk.skey)),
     zl |-> zl, sl |-> sl]

\* the loop of Module.zones from record tk.i on, up to the next reading of
\* the clock: schedule_by_idx -> schedules() -> _data() when self._schedules
\* is empty
ZonesLoop(tk, zl, sl) ==
    IF tk.i > Len(tk.data.zones) THEN ZonesReturn(tk, zl, sl)
    ELSE IF sl # << >>
         THEN ZonesReturn(tk, BuildViews(tk.data.zones, tk.i, sl, zl), sl)
         ELSE [tk |-> [tk EXCEPT !.pc = "data", !.frame = "schedules",
                                 !.data_refresh = FALSE],
               zl |-> zl, sl |-> sl]

\* a call of _data returns d to the frame that made it:
\*   zones():     data = d, then the loop
\*   schedules(): self._schedules = d's schedules, then the lookup on top of
\*                it, or (inside zones()) the view of record tk.i and the
\*                rest of the loop
DataReturn(tk, d, zl, sl) ==
    CASE tk.frame = "zones" ->
            ZonesLoop([tk EXCEPT !.data = d, !.i = 1, !.resp = NoData], zl, sl)
      [] tk.frame = "schedules" /\ tk.op \in ScheduleOps ->
            SchedulesReturn(tk, zl, d.scheds)
      [] tk.frame = "schedules" /\ tk.op \in ZoneOps ->
            LET z == tk.data.zones[tk.i]
                view == Zone(z, schedule_by_idx(d.scheds, z.schedule_index))
            IN  ZonesLoop([tk EXCEPT !.i = @ + 1, !.resp = NoData],
                          Append(zl, view), d.scheds)

\* -------------------------------------------- client.py: the requests
\* a faulty variant of SetTemperatureRequest: temperature * 10 is rounded
\* down (floor) instead of truncated
SetTemperatureRequestMutant(module_id, mode_id, zone_id, temperature) ==
    [kind |-> "set_temperature", module_id |-> module_id, zone_id |-> zone_id,
     data |-> [id |-> mode_id, parentId |-> zone_id, mode |-> "constantTemp",
               constTempTime |-> 0,
               setTemperature |-> temperature \div 10,
               scheduleIndex |-> 0]]

\* RothAPI.set_zone_temperature: the module the POST is addressed to and its
\* body; temperature is in hundredths of a degree, int() truncates
\* temperature * 10 toward zero
SetTemperatureRequest(module_id, mode_id, zone_id, temperature) ==
    [kind |-> "set_temperature", module_id |-> module_id, zone_id |-> zone_id,
     data |-> [id |-> mode_id, parentId |-> zone_id, mode |-> "constantTemp",
               constTempTime |-> 0,
               setTemperature |-> IF temperature >= 0 THEN temperature \div 10
                                  ELSE -((-temperature) \div 10),
               scheduleIndex |-> 0]]

\* a faulty variant of Intervals: no interval is left out
IntervalsMutant(intervals) ==
    [k \in 1..Len(intervals) |->
        [start |-> intervals[k].start, stop |-> intervals[k].stop,
         temp |-> intervals[k].temp]]

\* [i.dict(by_alias=True) for i in intervals if i.start != 6100]
Intervals(intervals) ==
    LET P(i) == i.start # Sentinel
        dict(i) == [start |-> i.start, stop |-> i.stop, temp |-> i.temp]
        kept == SelectSeq(intervals, P)
    IN  [k \in 1..Len(kept) |-> dict(kept[k])]

\* a faulty variant of ZonesOnSchedule: every zone of the module
ZonesOnScheduleEveryZone(module, zone_id, sch) == module.zones

\* a faulty variant of ZonesOnSchedule: only the zones already on the schedule
ZonesOnScheduleMutant(module, zone_id, sch) ==
    LET P(z) == z.mode = "globalSchedule" /\ z.schedule_index = sch.index
    IN  SelectSeq(module.zones, P)

\* zones_on_schedule of RothAPI.set_zone_schedule
ZonesOnSchedule(module, zone_id, sch) ==
    LET P(z) == \/ (z.mode = "globalSchedule" /\ z.schedule_index = sch.index)
                \/ z.id = zone_id
    IN  SelectSeq(module.zones, P)

\* a faulty variant of SetScheduleRequest: only the zone of the call is listed
SetScheduleRequestOnlyZone(module, zone_id, sch) ==
    LET P(z) == z.id = zone_id
        on == SelectSeq(module.zones, P)
    IN  [kind |-> "set_schedule", zone_id |-> zone_id,
         data |-> [scheduleName |-> sch.name,
                   setInZones |-> [k \in 1..Len(on) |->
                                      [zoneId |-> on[k].id, modeId |-> on[k].mode_id]],
                   schedule |-> [id |-> sch.id, index |-> sch.index,
                                 p0Days |-> sch.p0_days,
                                 p0SetbackTemp |-> sch.p0_setback_temp,
                                 p0Intervals |-> Intervals(sch.p0_intervals),
                                 p1Days |-> sch.p1_days,
                                 p1SetbackTemp |-> sch.p1_setback_temp,
                                 p1Intervals |-> Intervals(sch.p1_intervals)]]]

\* a faulty variant of SetScheduleRequest: the schedule's id and index are
\* taken for one another
SetScheduleRequestMutant(module, zone_id, sch) ==
    LET on == ZonesOnSchedule(module, zone_id, sch)
    IN  [kind |-> "set_schedule", zone_id |-> zone_id,
         data |-> [scheduleName |-> sch.name,
                   setInZones |-> [k \in 1..Len(on) |->
                                      [zoneId |-> on[k].id, modeId |-> on[k].mode_id]],
                   schedule |-> [id |-> sch.index, index |-> sch.id,
                                 p0Days |-> sch.p0_days,
                                 p0SetbackTemp |-> sch.p0_setback_temp,
                                 p0Intervals |-> Intervals(sch.p0_intervals),
                                 p1Days |-> sch.p1_days,
                                 p1SetbackTemp |-> sch.p1_setback_temp,
                                 p1Intervals |-> Intervals(sch.p1_intervals)]]]

\* RothAPI.set_zone_schedule: the body of the POST, from the module state
\* it fetched and the schedule it found there
SetScheduleRequest(module, zone_id, sch) ==
    LET on == ZonesOnSchedule(module, zone_id, sch)
    IN  [kind |-> "set_schedule", zone_id |-> zone_id,
         data |-> [scheduleName |-> sch.name,
                   setInZones |-> [k \in 1..Len(on) |->
                                      [zoneId |-> on[k].id, modeId |-> on[k].mode_id]],
                   schedule |-> [id |-> sch.id, index |-> sch.index,
                                 p0Days |-> sch.p0_days,
                                 p0SetbackTemp |-> sch.p0_setback_temp,
                                 p0Intervals |-> Intervals(sch.p0_intervals),
                                 p1Days |-> sch.p1_days,
                                 p1SetbackTemp |-> sch.p1_setback_temp,
                                 p1Intervals |-> Intervals(sch.p1_intervals)]]]

\* ------------------------------------------------ the remote service
\* POST .../zones: the zone named by parentId gets the mode of the body
RemoteSetTemperature(zs, req) ==
    [k \in 1..Len(zs) |->
        IF zs[k].id = req.data.parentId
        THEN [zs[k] EXCEPT !.mode = req.data.mode,
                           !.schedule_index = req.data.scheduleIndex]
        ELSE zs[k]]

\* POST .../global_schedule: the schedule's zones are overwritten by
\* setInZones; a zone that was on the schedule and is not listed leaves it
RemoteSetSchedule(zs, req) ==
    LET listed == {req.data.setInZones[k].zoneId : k \in 1..Len(req.data.setInZones)}
        idx == req.data.schedule.index
    IN  [k \in 1..Len(zs) |->
            IF zs[k].id \in listed
            THEN [zs[k] EXCEPT !.mode = "globalSchedule", !.schedule_index = idx]
            ELSE IF zs[k].mode = "globalSchedule" /\ zs[k].schedule_index = idx
                 THEN [zs[k] EXCEPT !.mode = "constantTemp", !.schedule_index = 0]
                 ELSE zs[k]]

\* ---------------------------------------------------------------- Init
\* the zones of the modules the model starts from; a module has the first
\* n of them
BaseZones ==
    { << ZoneModel(1, "Kitchen", "noAlarm", "globalSchedule", 0),
         ZoneModel(2, "Hall", "zoneOff", "constantTemp", 0),
         ZoneModel(3, "Kitchen", "noAlarm", "globalSchedule", 1),
         ZoneModel(4, "Hall", "zoneOff", "localSchedule", 0) >>,
      << ZoneModel(1, "Kitchen", "zoneOff", "globalSchedule", 1),
         ZoneModel(2, "Kitchen", "noAlarm", "localSchedule", 0),
         ZoneModel(3, "Hall", "zoneOff", "timeLimit", 0),
         ZoneModel(4, "Hall", "noAlarm", "timeLimit", 1) >> }

\* the modules the model starts from: n zones, and no global schedule or
\* as many as the bound allows for n zones
RemoteModules ==
    UNION { { [zones |-> SubSeq(b, 1, n), scheds |-> SubSeq(GlobalSchedules, 1, m)] :
                b \in BaseZones,
                m \in {0, IF n < NSchedules THEN n ELSE NSchedules} } :
            n \in 0..NZones }

\* no RothAPI object has been constructed
NoClient == [_username |-> "", _password |-> "", _user_id |-> << >>, _token |-> << >>]

\* no TouchlineSL object has been constructed
NotBuilt ==
    [built |-> "no", error |-> "", _client |-> << >>, _modules |-> << >>,
     args |-> << >>]

\* no call has been made on the TouchlineSL object
NoAccountCall ==
    [pc |-> "idle", op |-> "none", module_id |-> "", refresh |-> FALSE,
     resp |-> << >>, status |-> "none", result |-> << >>, nget |-> 0,
     cached |-> << >>, n |-> 0]

\* no TouchlineSL object is in use
AccountAtRest ==
    /\ tsl = NotBuilt
    /\ log = << >>
    /\ account = << >>
    /\ acall = NoAccountCall
    /\ nlist = 0

\* no RothAPI object is in use
ClientAtRest ==
    /\ api = NoClient
    /\ ctask = << >>
    /\ sent = << >>
    /\ nlogin = 0

\* no attribute has been read
NoResult == [attr |-> "none", status |-> "none", value |-> << >>]

\* no Zone is looked at on its own
ZoneAtRest ==
    /\ zview = << >>
    /\ got = NoResult

\* Module.__init__, with the callers cs
InitWith(cs) ==
    /\ ZoneAtRest
    /\ AccountAtRest
    /\ ClientAtRest
    /\ now = StartTime
    /\ ticks = 0
    /\ remote \in RemoteModules
    /\ nchanges = 0
    /\ nsnap = 0
    /\ cache_validity \in ValidityChoices
    /\ _raw_data = NoData
    /\ _last_fetched = 0
    /\ _zones = << >>
    /\ _schedules = << >>
    /\ callers = cs
    /\ task = [t \in cs |-> IdleTask]
    /\ running = 0
    /\ ncalls = 0
    /\ invalidated = "none"
    /\ mutSnap = 0

Init == InitWith({1})

\* ------------------------------------------------------------- actions
\* the clock advances: by a little at any time, by much only while every
\* task is suspended (a task that runs does not stall for a second).  The
\* clock is read when a call begins, in _data and when _data resumes, so
\* the advance is placed before one of these.  With a window of 0 every
\* advance has the same effect, and the short one stands for all.
Tick(d) ==
    /\ ticks < MaxTicks
    /\ d = LongTick => (running = 0 /\ cache_validity # 0)
    /\ \E t \in callers : task[t].pc \in {"idle", "data", "fetched"}
    /\ now' = now + d
    /\ ticks' = ticks + 1
    /\ UNCHANGED << notModule, remote, nchanges, nsnap, cache_validity, _raw_data,
                    _last_fetched, _zones, _schedules, task, running, callers,
                    ncalls, invalidated, mutSnap >>

\* somebody else (the thermostat, another client) switches zone k on or
\* off.  Only the GET of Module._data reads the zone state, so the change
\* is placed where such a GET is about to be answered.
RemoteChange(k) ==
    /\ nchanges < MaxRemoteChanges
    /\ k \in 1..Len(remote.zones)
    /\ \E t \in callers :
          task[t].pc = "fetching" /\ task[t].frame \in {"zones", "schedules"}
    /\ remote' = [remote EXCEPT !.zones[k].zone_state =
                     IF @ = "zoneOff" THEN "noAlarm" ELSE "zoneOff"]
    /\ nchanges' = nchanges + 1
    /\ UNCHANGED << notModule, now, ticks, nsnap, cache_validity, _raw_data, _last_fetched,
                    _zones, _schedules, task, running, callers, ncalls,
                    invalidated, mutSnap >>

\* a task takes the event loop for a new public call
CanCall(t) ==
    /\ t \in callers
    /\ task[t].pc = "idle"
    /\ running = 0
    /\ ncalls < (IF Cardinality(callers) = 1 THEN MaxCalls ELSE MaxCallsOverlapping)

\* the validity window, in seconds, has passed since the last fetch
Expired ==
    _last_fetched # 0 /\ now - _last_fetched > cache_validity * MsPerSecond

\* the snapshot, the timestamp and the lists of the Module
Cache == [raw |-> _raw_data, last |-> _last_fetched, zl |-> _zones, sl |-> _schedules]

\* the task record of a new call.  Besides the call it notes, for the
\* properties: what reset the cache before it (after), whether the window
\* had passed (expired), the snapshots parsed before it (snap0) and, while
\* the call lasts, the cache it found (before)
NewCall(t, op, include_off, refresh, ikey, skey) ==
    [task[t] EXCEPT !.op = op, !.include_off = include_off, !.refresh = refresh,
                    !.ikey = ikey, !.skey = skey, !.nfetch = 0,
                    !.after = invalidated, !.expired = Expired, !.snap0 = nsnap,
                    !.status = "running", !.request = NoPayload,
                    !.before = Cache]

\* the module's lists and the task after a step of task t that left m
Settle(t, m) ==
    /\ _zones' = m.zl
    /\ _schedules' = m.sl
    /\ task' = [task EXCEPT ![t] = m.tk]
    /\ running' = IF m.tk.pc = "data" THEN t ELSE 0

\* a faulty variant of CallZones: the zone list is rebuilt by every call
CallZonesMutant(t, op, include_off, refresh, ikey, skey) ==
    /\ CanCall(t)
    /\ LET tk == [NewCall(t, op, include_off, refresh, ikey, skey)
                     EXCEPT !.rviews = << >>, !.rscheds = << >>]
       IN  Settle(t, [tk |-> [tk EXCEPT !.pc = "data", !.frame = "zones",
                                        !.data_refresh = refresh],
                      zl |-> _zones, sl |-> _schedules])
    /\ ncalls' = ncalls + 1
    /\ invalidated' = "none"
    /\ UNCHANGED << notModule, now, ticks, remote, nchanges, nsnap, cache_validity,
                    _raw_data, _last_fetched, callers, mutSnap >>

\* Module.zones / zone / zone_by_name, up to the first reading of the clock
CallZones(t, op, include_off, refresh, ikey, skey) ==
    /\ CanCall(t)
    /\ LET tk == [NewCall(t, op, include_off, refresh, ikey, skey)
                     EXCEPT !.rviews = << >>, !.rscheds = << >>]
       IN  Settle(t, IF _zones = << >> \/ refresh
                     THEN [tk |-> [tk EXCEPT !.pc = "data", !.frame = "zones",
                                             !.data_refresh = refresh],
                           zl |-> _zones, sl |-> _schedules]
                     ELSE ZonesReturn(tk, _zones, _schedules))
    /\ ncalls' = ncalls + 1
    /\ invalidated' = "none"
    /\ UNCHANGED << notModule, now, ticks, remote, nchanges, nsnap, cache_validity,
                    _raw_data, _last_fetched, callers, mutSnap >>

\* Module.schedules / schedule / schedule_by_idx / schedule_by_name, up to
\* the first reading of the clock
CallSchedules(t, op, refresh, ikey, skey) ==
    /\ CanCall(t)
    /\ LET tk == [NewCall(t, op, FALSE, refresh, ikey, skey)
                     EXCEPT !.rviews = << >>, !.rscheds = << >>]
       IN  Settle(t, IF _schedules = << >> \/ refresh
                     THEN [tk |-> [tk EXCEPT !.pc = "data", !.frame = "schedules",
                                             !.data_refresh = refresh],
                           zl |-> _zones, sl |-> _schedules]
                     ELSE SchedulesReturn(tk, _zones, _schedules))
    /\ ncalls' = ncalls + 1
    /\ invalidated' = "none"
    /\ UNCHANGED << notModule, now, ticks, remote, nchanges, nsnap, cache_validity,
                    _raw_data, _last_fetched, callers, mutSnap >>

\* the condition of Module._data: fetch, or serve self._raw_data
MustFetch(refresh, time_ms, last_fetched, validity) ==
    refresh \/ (time_ms - last_fetched) > validity

\* Module._data up to its await: it reads the clock, then either sends the
\* GET and suspends, or returns self._raw_data to its caller, which goes on
_data(t) ==
    /\ task[t].pc = "data"
    /\ running = t
    /\ IF MustFetch(task[t].data_refresh, now, _last_fetched, cache_validity)
       THEN /\ task' = [task EXCEPT ![t].pc = "fetching", ![t].nfetch = @ + 1]
            /\ running' = 0
            /\ UNCHANGED << _zones, _schedules >>
       ELSE IF _raw_data = NoData
            THEN Settle(t, [tk |-> Returned(task[t], "AttributeError", << >>, << >>),
                            zl |-> _zones, sl |-> _schedules])
            ELSE Settle(t, DataReturn(task[t], _raw_data, _zones, _schedules))
    /\ UNCHANGED << notModule, now, ticks, remote, nchanges, nsnap, cache_validity,
                    _raw_data, _last_fetched, callers, ncalls, invalidated,
                    mutSnap >>

\* the remote answers the GET of a suspended task with its state of now;
\* RothAPI.module parses the answer into a new ModuleModel
FetchServe(t) ==
    /\ t \in callers
    /\ task[t].pc = "fetching"
    /\ nsnap' = nsnap + 1
    /\ task' = [task EXCEPT ![t].pc = "fetched",
                            ![t].resp = ModuleModel(remote.zones, remote.scheds, nsnap + 1)]
    /\ UNCHANGED << notModule, now, ticks, remote, nchanges, cache_validity, _raw_data,
                    _last_fetched, _zones, _schedules, running, callers, ncalls,
                    invalidated, mutSnap >>

\* a faulty variant of DataResume: the answer is stored, the time is not
DataResumeMutant(t) ==
    /\ task[t].pc = "fetched"
    /\ task[t].frame \in {"zones", "schedules"}
    /\ running = 0
    /\ _raw_data' = task[t].resp
    /\ Settle(t, DataReturn(task[t], task[t].resp, _zones, _schedules))
    /\ UNCHANGED << notModule, now, ticks, remote, nchanges, nsnap, cache_validity,
                    _last_fetched, callers, ncalls, invalidated, mutSnap >>

\* Module._data after its await: the answer and the time are stored, and
\* the caller of _data goes on up to the next reading of the clock
DataResume(t) ==
    /\ task[t].pc = "fetched"
    /\ task[t].frame \in {"zones", "schedules"}
    /\ running = 0
    /\ _raw_data' = task[t].resp
    /\ _last_fetched' = now
    /\ Settle(t, DataReturn(task[t], task[t].resp, _zones, _schedules))
    /\ UNCHANGED << notModule, now, ticks, remote, nchanges, nsnap, cache_validity, callers,
                    ncalls, invalidated, mutSnap >>

\* the GET fails (RothAPIError, a transport error, a schema error): the
\* exception leaves every frame of the call
FetchFail(t) ==
    /\ t \in callers
    /\ task[t].pc = "fetching"
    /\ running = 0
    /\ task' = [task EXCEPT ![t] =
                    Returned(task[t], "error",
                             IF task[t].op \in MutationOps THEN task[t].rviews ELSE << >>,
                             << >>)]
    /\ UNCHANGED << notModule, now, ticks, remote, nchanges, nsnap, cache_validity, _raw_data,
                    _last_fetched, _zones, _schedules, running, callers, ncalls,
                    invalidated, mutSnap >>

\* a faulty variant of InvalidateCache: the timestamp is reset, the lists are kept
InvalidateCacheMutant ==
    /\ _last_fetched' = 0
    /\ UNCHANGED << _zones, _schedules >>

\* Module.invalidate_cache: what it assigns
InvalidateCache ==
    /\ _last_fetched' = 0
    /\ _zones' = << >>
    /\ _schedules' = << >>

\* a public call of Module.invalidate_cache
invalidate_cache(t) ==
    /\ CanCall(t)
    /\ InvalidateCache
    /\ task' = [task EXCEPT ![t] =
                    Returned(NewCall(t, "invalidate_cache", FALSE, FALSE, 0, ""),
                             "ok", task[t].rviews, task[t].rscheds)]
    /\ ncalls' = ncalls + 1
    /\ invalidated' = "invalidate_cache"
    /\ UNCHANGED << notModule, now, ticks, remote, nchanges, nsnap, cache_validity, _raw_data,
                    running, callers, mutSnap >>

\* Zone.set_temperature on a view z the caller holds, up to the await of
\* the POST in RothAPI.set_zone_temperature
set_temperature(t, z, temperature) ==
    /\ CanCall(t)
    /\ z \in 1..Len(task[t].rviews)
    /\ LET self == task[t].rviews[z]
       IN  task' = [task EXCEPT ![t] =
                       [NewCall(t, "set_temperature", FALSE, FALSE, temperature, "")
                          EXCEPT !.pc = "posting", !.target = << self >>,
                                 !.request = SetTemperatureRequest(
                                     ModuleUdid, self._raw_data.mode_id,
                                     ZoneId(self), temperature)]]
    /\ ncalls' = ncalls + 1
    /\ UNCHANGED << notModule, now, ticks, remote, nchanges, nsnap, cache_validity, _raw_data,
                    _last_fetched, _zones, _schedules, running, callers,
                    invalidated, mutSnap >>

\* Zone.set_schedule on a view z the caller holds, up to the await of the
\* GET in RothAPI.set_zone_schedule -> RothAPI.module
set_schedule(t, z, schedule_id) ==
    /\ CanCall(t)
    /\ z \in 1..Len(task[t].rviews)
    /\ task' = [task EXCEPT ![t] =
                   [NewCall(t, "set_schedule", FALSE, FALSE, schedule_id, "")
                      EXCEPT !.pc = "fetching", !.frame = "set_schedule",
                             !.target = << task[t].rviews[z] >>]]
    /\ ncalls' = ncalls + 1
    /\ UNCHANGED << notModule, now, ticks, remote, nchanges, nsnap, cache_validity, _raw_data,
                    _last_fetched, _zones, _schedules, running, callers,
                    invalidated, mutSnap >>

\* a faulty variant of set_zone_schedule: without the assert, a schedule
\* that is not found is replaced by the first one of the module
set_zone_scheduleMutant(t) ==
    /\ task[t].pc = "fetched"
    /\ task[t].frame = "set_schedule"
    /\ running = 0
    /\ LET module == task[t].resp
           byId == schedule(module.scheds, task[t].ikey)
           found == IF byId = << >> /\ module.scheds # << >>
                    THEN << module.scheds[1] >> ELSE byId
       IN  task' = [task EXCEPT ![t] =
                       IF found = << >>
                       THEN Returned(task[t], "AssertionError", task[t].rviews, task[t].rscheds)
                       ELSE [task[t] EXCEPT !.pc = "posting", !.data = module,
                                            !.resp = NoData,
                                            !.request = SetScheduleRequest(
                                                module, ZoneId(task[t].target[1]), found[1])]]
    /\ UNCHANGED << notModule, now, ticks, remote, nchanges, nsnap, cache_validity, _raw_data,
                    _last_fetched, _zones, _schedules, running, callers, ncalls,
                    invalidated, mutSnap >>

\* a faulty variant of set_zone_schedule: the schedule and the zones are
\* taken from the snapshot the Module has stored
set_zone_scheduleFromCache(t) ==
    /\ task[t].pc = "fetched"
    /\ task[t].frame = "set_schedule"
    /\ running = 0
    /\ LET module == _raw_data
           found == schedule(module.scheds, task[t].ikey)
       IN  task' = [task EXCEPT ![t] =
                       IF found = << >>
                       THEN Returned(task[t], "AssertionError", task[t].rviews, task[t].rscheds)
                       ELSE [task[t] EXCEPT !.pc = "posting", !.data = module,
                                            !.resp = NoData,
                                            !.request = SetScheduleRequest(
                                                module, ZoneId(task[t].target[1]), found[1])]]
    /\ UNCHANGED << notModule, now, ticks, remote, nchanges, nsnap, cache_validity, _raw_data,
                    _last_fetched, _zones, _schedules, running, callers, ncalls,
                    invalidated, mutSnap >>

\* RothAPI.set_zone_schedule after its GET: the schedule is looked up in the
\* fetched module (the assert fails when it is not there), the request is
\* built and the POST is awaited
set_zone_schedule(t) ==
    /\ task[t].pc = "fetched"
    /\ task[t].frame = "set_schedule"
    /\ running = 0
    /\ LET module == task[t].resp
           found == schedule(module.scheds, task[t].ikey)
       IN  task' = [task EXCEPT ![t] =
                       IF found = << >>
                       THEN Returned(task[t], "AssertionError", task[t].rviews, task[t].rscheds)
                       ELSE [task[t] EXCEPT !.pc = "posting", !.data = module,
                                            !.resp = NoData,
                                            !.request = SetScheduleRequest(
                                                module, ZoneId(task[t].target[1]), found[1])]]
    /\ UNCHANGED << notModule, now, ticks, remote, nchanges, nsnap, cache_validity, _raw_data,
                    _last_fetched, _zones, _schedules, running, callers, ncalls,
                    invalidated, mutSnap >>

\* the remote applies the POST of a suspended task
PostServe(t) ==
    /\ t \in callers
    /\ task[t].pc = "posting"
    /\ remote' = [remote EXCEPT !.zones =
                     IF task[t].request.kind = "set_temperature"
                     THEN RemoteSetTemperature(@, task[t].request)
                     ELSE RemoteSetSchedule(@, task[t].request)]
    /\ task' = [task EXCEPT ![t].pc = "posted"]
    /\ UNCHANGED << notModule, now, ticks, nchanges, nsnap, cache_validity, _raw_data,
                    _last_fetched, _zones, _schedules, running, callers, ncalls,
                    invalidated, mutSnap >>

\* a faulty variant of MutationReturn: the new mode is also written into
\* the record of the zone, which the views the caller holds share
MutationReturnMutant(t) ==
    /\ t \in callers
    /\ task[t].pc = "posted"
    /\ running = 0
    /\ InvalidateCache
    /\ LET mode == IF task[t].op = "set_temperature" THEN "constantTemp"
                   ELSE "globalSchedule"
           written == [k \in 1..Len(task[t].rviews) |->
                          IF ZoneId(task[t].rviews[k]) = ZoneId(task[t].target[1])
                          THEN [task[t].rviews[k] EXCEPT !._raw_data.mode = mode]
                          ELSE task[t].rviews[k]]
       IN  task' = [task EXCEPT ![t] =
                       Returned(task[t], "ok", written, task[t].rscheds)]
    /\ invalidated' = "mutation"
    /\ mutSnap' = nsnap
    /\ UNCHANGED << notModule, now, ticks, remote, nchanges, nsnap, cache_validity, _raw_data,
                    running, callers, ncalls >>

\* Zone.set_temperature / Zone.set_schedule after the await of the client:
\* self._module.invalidate_cache()
MutationReturn(t) ==
    /\ t \in callers
    /\ task[t].pc = "posted"
    /\ running = 0
    /\ InvalidateCache
    /\ task' = [task EXCEPT ![t] =
                    Returned(task[t], "ok", task[t].rviews, task[t].rscheds)]
    /\ invalidated' = "mutation"
    /\ mutSnap' = nsnap
    /\ UNCHANGED << notModule, now, ticks, remote, nchanges, nsnap, cache_validity, _raw_data,
                    running, callers, ncalls >>

\* a faulty variant of PostFail: the cache is invalidated although the
\* POST failed (invalidate_cache in a finally clause)
PostFailMutant(t) ==
    /\ t \in callers
    /\ task[t].pc \in {"posting", "posted"}
    /\ running = 0
    /\ InvalidateCache
    /\ task' = [task EXCEPT ![t] =
                    Returned(task[t], "error", task[t].rviews, task[t].rscheds)]
    /\ UNCHANGED << notModule, now, ticks, remote, nchanges, nsnap, cache_validity, _raw_data,
                    running, callers, ncalls, invalidated, mutSnap >>

\* the POST fails: the exception leaves set_temperature / set_schedule
\* before invalidate_cache
PostFail(t) ==
    /\ t \in callers
    /\ task[t].pc \in {"posting", "posted"}
    /\ running = 0
    /\ task' = [task EXCEPT ![t] =
                    Returned(task[t], "error", task[t].rviews, task[t].rscheds)]
    /\ UNCHANGED << notModule, now, ticks, remote, nchanges, nsnap, cache_validity, _raw_data,
                    _last_fetched, _zones, _schedules, running, callers, ncalls,
                    invalidated, mutSnap >>

Next ==
    \/ \E d \in {ShortTick, LongTick} : Tick(d)
    \/ \E k \in 1..NZones : RemoteChange(k)
    \/ \E t \in callers, include_off \in BOOLEAN, refresh \in BOOLEAN :
          CallZones(t, "zones", include_off, refresh, 0, "")
    \/ \E t \in callers, refresh \in BOOLEAN, zone_id \in ZoneIdKeys :
          CallZones(t, "zone", TRUE, refresh, zone_id, "")
    \/ \E t \in callers, refresh \in BOOLEAN, zone_name \in ZoneNameKeys :
          CallZones(t, "zone_by_name", TRUE, refresh, 0, zone_name)
    \/ \E t \in callers, refresh \in BOOLEAN :
          CallSchedules(t, "schedules", refresh, 0, "")
    \/ \E t \in callers, refresh \in BOOLEAN, schedule_id \in ScheduleIdKeys :
          CallSchedules(t, "schedule", refresh, schedule_id, "")
    \/ \E t \in callers, refresh \in BOOLEAN, schedule_idx \in ScheduleIdxKeys :
          CallSchedules(t, "schedule_by_idx", refresh, schedule_idx, "")
    \/ \E t \in callers, refresh \in BOOLEAN, schedule_name \in ScheduleNameKeys :
          CallSchedules(t, "schedule_by_name", refresh, 0, schedule_name)
    \/ \E t \in callers : _data(t)
    \/ \E t \in callers : FetchServe(t)
    \/ \E t \in callers : DataResume(t)
    \/ \E t \in callers : FetchFail(t)
    \/ \E t \in callers : invalidate_cache(t)
    \/ \E t \in callers, z \in 1..(2 * NZones), temperature \in Temperatures :
          set_temperature(t, z, temperature)
    \/ \E t \in callers, z \in 1..(2 * NZones), schedule_id \in SetScheduleIdKeys :
          set_schedule(t, z, schedule_id)
    \/ \E t \in callers : set_zone_schedule(t)
    \/ \E t \in callers : PostServe(t)
    \/ \E t \in callers : MutationReturn(t)
    \/ \E t \in callers : PostFail(t)

Spec == Init /\ [][Next]_vars

\* ------------------------------------ two callers in one event loop
\* the module the two callers share: the Kitchen is on the schedule with
\* index 0, the Hall is switched off and at a constant temperature, and no
\* zone is on the schedule with index 1 (whose id is 0)
OverlapInit ==
    /\ InitWith({1, 2})
    /\ remote = [zones |-> << ZoneModel(1, "Kitchen", "noAlarm", "globalSchedule", 0),
                             ZoneModel(2, "Hall", "zoneOff", "constantTemp", 0) >>,
                 scheds |-> SubSeq(GlobalSchedules, 1, 2)]

\* the calls of the two tasks: zones(include_off=True), invalidate_cache(),
\* set_temperature(22.5) and set_schedule(0), the steps they are made of,
\* and the clock advancing while an answer is on its way
OverlapNext ==
    \/ Tick(ShortTick) /\ \E t \in callers : task[t].pc = "fetched"
    \/ \E t \in callers, refresh \in BOOLEAN :
          CallZones(t, "zones", TRUE, refresh, 0, "")
    \/ \E t \in callers : _data(t)
    \/ \E t \in callers : FetchServe(t)
    \/ \E t \in callers : DataResume(t)
    \/ \E t \in callers : invalidate_cache(t)
    \/ \E t \in callers, z \in 1..NZones : set_temperature(t, z, 2250)
    \/ \E t \in callers, z \in 1..NZones : set_schedule(t, z, 0)
    \/ \E t \in callers : set_zone_schedule(t)
    \/ \E t \in callers : PostServe(t)
    \/ \E t \in callers : MutationReturn(t)

SpecOverlap == OverlapInit /\ [][OverlapNext]_vars

\* ------------------------------------------------ a Module at rest
\* a Module nobody calls, for the specifications of the other objects
ModuleAtRest ==
    /\ now = StartTime
    /\ ticks = 0
    /\ remote = [zones |-> << >>, scheds |-> << >>]
    /\ nchanges = 0
    /\ nsnap = 0
    /\ cache_validity = DefaultCacheValidity
    /\ _raw_data = NoData
    /\ _last_fetched = 0
    /\ _zones = << >>
    /\ _schedules = << >>
    /\ callers = {}
    /\ task = << >>
    /\ running = 0
    /\ ncalls = 0
    /\ invalidated = "none"
    /\ mutSnap = 0

\* ------------------------------------- zone.py: the attributes of a Zone
\* the readings of the zones looked at: no reading, 0.0, 22.1 and -0.5
\* degrees; with and without a signal strength
ZoneReadings ==
    { ZoneAttributesModel(cur, 180, 61, sig, << >>, relay, "heating") :
        cur \in {<< >>, << 0 >>, << 221 >>, << -5 >>},
        sig \in {<< >>, << 53 >>},
        relay \in {"on", "off"} }

\* the zone records looked at
ZoneRecords ==
    { ZoneModel(1, "Kitchen", st, mode, 0) @@ r :
        st \in ZoneStates, mode \in {"constantTemp", "globalSchedule"},
        r \in ZoneReadings }

\* the view Module.zones builds of a zone record, in a module whose only
\* global schedule is the first one
ViewOf(zone_data) ==
    LET m == ModuleModel(<< zone_data >>, SubSeq(GlobalSchedules, 1, 1), 1)
    IN  BuildViews(m.zones, 1, m.scheds, << >>)[1]

\* the names asked of a view: the properties, and two names more
AttributeNames == ZoneProperties \cup {"signal_strength", "alarm"}

ZoneInit ==
    /\ zview \in {<< ViewOf(zone_data) >> : zone_data \in ZoneRecords}
    /\ got = NoResult
    /\ ModuleAtRest
    /\ AccountAtRest
    /\ ClientAtRest

\* getattr(zview, attr)
GetAttr(attr) ==
    /\ zview # << >>
    /\ got' = getattr(zview[1], attr)
    /\ UNCHANGED << zview, moduleVars, accountVars, clientVars >>

ZoneNext == \E attr \in AttributeNames : GetAttr(attr)

SpecZone == ZoneInit /\ [][ZoneNext]_vars

\* ------------------------------------------ touchlinesl.py: TouchlineSL
MaxAccountCalls == 3    \* calls of modules() / module() in one behaviour

IgnoredWarning ==
    "username and password arguments will be ignored because a client was passed"
NoClientError == "username and password must be strings if no client is provided"

\* the clients a TouchlineSL is built with or builds
FakeRothAPI == [kind |-> "FakeRothAPI", _username |-> << >>, _password |-> << >>]
RothAPI(username, password) ==
    [kind |-> "RothAPI", _username |-> << username >>, _password |-> << password >>]

\* the arguments of TouchlineSL(...): << >> is None
UsernameChoices == {<< >>, << "" >>, << "foo" >>}
PasswordChoices == {<< >>, << "" >>, << "bar" >>}
ClientChoices == {<< >>, << FakeRothAPI >>, << RothAPI("foo", "bar") >>}

\* the truth value of an Optional[str]: None and "" are false
Truthy(str) == str # << >> /\ str[1] # ""

\* a faulty variant of TouchlineSLNew: without a client, only username and
\* password both None are refused
TouchlineSLNewMutant(username, password, client) ==
    LET args == [username |-> username, password |-> password, client |-> client]
    IN  IF client # << >>
        THEN [obj |-> [built |-> "ok", error |-> "", _client |-> client,
                       _modules |-> << >>, args |-> << args >>],
              logged |-> IF Truthy(username) \/ Truthy(password)
                         THEN << IgnoredWarning >> ELSE << >>]
        ELSE IF username = << >> /\ password = << >>
             THEN [obj |-> [built |-> "TypeError", error |-> NoClientError,
                            _client |-> << >>, _modules |-> << >>,
                            args |-> << args >>],
                   logged |-> << >>]
             ELSE [obj |-> [built |-> "ok", error |-> "",
                            _client |-> << [kind |-> "RothAPI", _username |-> username,
                                            _password |-> password] >>,
                            _modules |-> << >>, args |-> << args >>],
                   logged |-> << >>]

\* TouchlineSL.__init__: the object (or the TypeError raised) and what is
\* logged.  A client object is true: the client classes define neither
\* __bool__ nor __len__.
TouchlineSLNew(username, password, client) ==
    LET args == [username |-> username, password |-> password, client |-> client]
    IN  IF client # << >>
        THEN [obj |-> [built |-> "ok", error |-> "", _client |-> client,
                       _modules |-> << >>, args |-> << args >>],
              logged |-> IF Truthy(username) \/ Truthy(password)
                         THEN << IgnoredWarning >> ELSE << >>]
        ELSE IF username = << >> \/ password = << >>
             THEN [obj |-> [built |-> "TypeError", error |-> NoClientError,
                            _client |-> << >>, _modules |-> << >>,
                            args |-> << args >>],
                   logged |-> << >>]
             ELSE [obj |-> [built |-> "ok", error |-> "",
                            _client |-> << RothAPI(username[1], password[1]) >>,
                            _modules |-> << >>, args |-> << args >>],
                   logged |-> << >>]

\* AccountModuleModel: udid and name
AccountModuleModel(udid, name) == [udid |-> udid, name |-> name]

\* the module lists of the accounts: none, one, two, and two with one udid
Accounts ==
    { << >>,
      << AccountModuleModel("m1", "House") >>,
      << AccountModuleModel("m1", "House"), AccountModuleModel("m2", "Barn") >>,
      << AccountModuleModel("m2", "Barn"), AccountModuleModel("m2", "Shed") >> }

\* the ids module() is called with
ModuleIdKeys == {"m1", "m2", "123"}

\* Module(client=..., module_data=m), made from answer number n
Module(client, module_data, n) ==
    [id |-> module_data.udid, name |-> module_data.name, _client |-> client,
     made |-> n]

\* a faulty variant of MustList: every call asks the client
MustListMutant(modules, refresh) == TRUE

\* the condition of TouchlineSL.modules: ask the client, or serve the list
MustList(modules, refresh) == modules = << >> \/ refresh

\* the search of TouchlineSL.module
FindModule(modules, module_id) ==
    LET P(m) == m.id = module_id IN next(SelectSeq(modules, P))

\* the return of modules(), and of module() on top of it
ModulesReturn(call, modules) ==
    [call EXCEPT !.pc = "idle", !.resp = << >>, !.status = "ok",
                 !.result = IF call.op = "modules" THEN modules
                            ELSE FindModule(modules, call.module_id)]

AccountInit ==
    /\ tsl = NotBuilt
    /\ log = << >>
    /\ account \in Accounts
    /\ acall = NoAccountCall
    /\ nlist = 0
    /\ ModuleAtRest
    /\ ZoneAtRest
    /\ ClientAtRest

\* TouchlineSL(username=..., password=..., client=...)
TouchlineSLInit(username, password, client) ==
    /\ tsl.built = "no"
    /\ LET new == TouchlineSLNew(username, password, client)
       IN  /\ tsl' = new.obj
           /\ log' = log \o new.logged
    /\ UNCHANGED << account, acall, nlist, moduleVars, zoneVars, clientVars >>

\* TouchlineSL.modules / TouchlineSL.module, up to the await of the client
CallModules(op, module_id, refresh) ==
    /\ tsl.built = "ok"
    /\ acall.pc = "idle"
    /\ acall.n < MaxAccountCalls
    /\ LET call == [acall EXCEPT !.op = op, !.module_id = module_id,
                                 !.refresh = refresh, !.status = "running",
                                 !.result = << >>, !.nget = 0,
                                 !.cached = tsl._modules, !.n = @ + 1]
       IN  acall' = IF MustList(tsl._modules, refresh)
                    THEN [call EXCEPT !.pc = "listing"]
                    ELSE ModulesReturn(call, tsl._modules)
    /\ UNCHANGED << tsl, log, account, nlist, moduleVars, zoneVars, clientVars >>

\* the client answers with the module list of the account as it is now
ListServe ==
    /\ acall.pc = "listing"
    /\ nlist' = nlist + 1
    /\ acall' = [acall EXCEPT !.pc = "listed", !.resp = account, !.nget = @ + 1]
    /\ UNCHANGED << tsl, log, account, moduleVars, zoneVars, clientVars >>

\* TouchlineSL.modules after its await: a new Module for every entry
ListResume ==
    /\ acall.pc = "listed"
    /\ LET data == acall.resp
           modules == [k \in 1..Len(data) |-> Module(tsl._client[1], data[k], nlist)]
       IN  /\ tsl' = [tsl EXCEPT !._modules = modules]
           /\ acall' = ModulesReturn(acall, modules)
    /\ UNCHANGED << log, account, nlist, moduleVars, zoneVars, clientVars >>

\* client.modules() fails: the exception leaves modules() / module()
ListFail ==
    /\ acall.pc = "listing"
    /\ acall' = [acall EXCEPT !.pc = "idle", !.resp = << >>, !.status = "error"]
    /\ UNCHANGED << tsl, log, account, nlist, moduleVars, zoneVars, clientVars >>

\* a module is added to the account or taken from it while a listing is
\* under way
AccountChange(a) ==
    /\ acall.pc = "listing"
    /\ a \in Accounts \ {account}
    /\ account' = a
    /\ UNCHANGED << tsl, log, acall, nlist, moduleVars, zoneVars, clientVars >>

AccountNext ==
    \/ \E username \in UsernameChoices, password \in PasswordChoices,
          client \in ClientChoices : TouchlineSLInit(username, password, client)
    \/ \E refresh \in BOOLEAN : CallModules("modules", "", refresh)
    \/ \E module_id \in ModuleIdKeys, refresh \in BOOLEAN :
          CallModules("module", module_id, refresh)
    \/ ListServe
    \/ ListResume
    \/ ListFail
    \/ \E a \in Accounts : AccountChange(a)

SpecAccount == AccountInit /\ [][AccountNext]_vars

\* ------------------------------------ client.py: RothAPI and its login
MaxClientCalls == 3     \* calls on the RothAPI object in one behaviour

\* the user id the Roth service knows the account by
ServiceUserId == 123456789

Digit(d) ==
    CASE d = 0 -> "0" [] d = 1 -> "1" [] d = 2 -> "2" [] d = 3 -> "3"
      [] d = 4 -> "4" [] d = 5 -> "5" [] d = 6 -> "6" [] d = 7 -> "7"
      [] d = 8 -> "8" [] d = 9 -> "9"

\* str(n) of a natural number, as an f-string writes it
RECURSIVE str(_)
str(n) == IF n < 10 THEN Digit(n) ELSE str(n \div 10) \o Digit(n % 10)

\* an Optional value in an f-string: None is written "None"
FormatInt(v) == IF v = << >> THEN "None" ELSE str(v[1])
FormatStr(v) == IF v = << >> THEN "None" ELSE v[1]

\* the token the service answers its n-th login with
Token(n) == "token-" \o str(n)

\* RothAPI(username, password) with the fields __init__ sets to None
NewRothAPI(username, password) ==
    [_user_id |-> << >>, _token |-> << >>] @@ RothAPI(username, password)

\* the arguments of the calls on the client
ClientZoneIds == {1}
ClientScheduleIds == {1, 99}

\* the module the service answers GET .../modules/{module_id} with
ServiceModule ==
    ModuleModel(<< ZoneModel(1, "Kitchen", "noAlarm", "constantTemp", 0) >>,
                SubSeq(GlobalSchedules, 1, 1), 1)

ClientOps == {"user_id", "authenticated", "modules", "module",
              "set_zone_temperature", "set_zone_schedule"}
\* the methods that begin with `if self._token is None: await self._login()`;
\* set_zone_schedule begins with self.module(...)
LoginFirstOps == {"user_id", "modules", "module", "set_zone_schedule"}

IdleClientTask ==
    [pc |-> "idle", op |-> "none", module_id |-> "", zone_id |-> 0,
     schedule_id |-> 0, status |-> "none", result |-> << >>, n |-> 0]

\* the urls the methods write with the client's user id
ModulesUrl(client) == "/users/" \o FormatInt(client._user_id) \o "/modules"
ModuleUrl(client, module_id) == ModulesUrl(client) \o "/" \o module_id
ZonesUrl(client, module_id) == ModuleUrl(client, module_id) \o "/zones"
GlobalScheduleUrl(client, module_id, zone_id) ==
    ZonesUrl(client, module_id) \o "/" \o str(zone_id) \o "/global_schedule"

\* the url of the request op makes with an authorization header
UrlOf(client, op, module_id, zone_id) ==
    CASE op = "authenticated" -> "/authentication"
      [] op = "modules" -> ModulesUrl(client)
      [] op = "module" -> ModuleUrl(client, module_id)
      [] op = "set_zone_temperature" -> ZonesUrl(client, module_id)
      [] op = "set_zone_schedule" -> GlobalScheduleUrl(client, module_id, zone_id)

\* _authed_get / _authd_post: the header is written from self._token as it
\* is when the request is made
Authorization(client) == "Bearer " \o FormatStr(client._token)

AuthedRequest(client, t, method, op, url) ==
    [by |-> t, op |-> op, method |-> method, url |-> url,
     authorization |-> Authorization(client)]

\* a method from the point where the token test is behind it, up to its
\* next await or its return: the task, and the requests it makes
Proceed(client, t, call) ==
    CASE call.op = "user_id" ->
           \* assert isinstance(self._user_id, int)
           [task |-> IF client._user_id = << >>
                     THEN [call EXCEPT !.pc = "idle", !.status = "AssertionError"]
                     ELSE [call EXCEPT !.pc = "idle", !.status = "ok",
                                       !.result = client._user_id],
            reqs |-> << >>]
      [] call.op \in {"authenticated", "modules"} ->
           [task |-> [call EXCEPT !.pc = "get"],
            reqs |-> << AuthedRequest(client, t, "GET", call.op,
                                      UrlOf(client, call.op, call.module_id,
                                            call.zone_id)) >>]
      [] call.op \in {"module", "set_zone_schedule"} ->
           [task |-> [call EXCEPT !.pc = "get"],
            reqs |-> << AuthedRequest(client, t, "GET", "module",
                                      ModuleUrl(client, call.module_id)) >>]

ClientCallsMade == IF ctask = << >> THEN 0 ELSE ctask[1].n + ctask[2].n

ClientInit ==
    /\ api = NewRothAPI("foo", "bar")
    /\ ctask = [t \in {1, 2} |-> IdleClientTask]
    /\ sent = << >>
    /\ nlogin = 0
    /\ ModuleAtRest
    /\ ZoneAtRest
    /\ AccountAtRest

\* a call of a method of the client, up to its first await or its return
ClientCall(t, op, module_id, zone_id, schedule_id) ==
    /\ ctask[t].pc = "idle"
    /\ ClientCallsMade < MaxClientCalls
    /\ LET call == [IdleClientTask EXCEPT !.op = op, !.module_id = module_id,
                                          !.zone_id = zone_id,
                                          !.schedule_id = schedule_id,
                                          !.status = "running",
                                          !.n = ctask[t].n + 1]
       IN  IF op = "set_zone_temperature"
           THEN /\ ctask' = [ctask EXCEPT ![t] = [call EXCEPT !.pc = "post"]]
                /\ sent' = Append(sent, AuthedRequest(api, t, "POST", op,
                                            UrlOf(api, op, module_id, zone_id)))
           ELSE IF op = "authenticated" /\ api._token = << >>
           THEN /\ ctask' = [ctask EXCEPT ![t] =
                                [call EXCEPT !.pc = "idle", !.status = "ok",
                                             !.result = << FALSE >>]]
                /\ sent' = sent
           ELSE IF op \in LoginFirstOps /\ api._token = << >>
           THEN /\ ctask' = [ctask EXCEPT ![t] = [call EXCEPT !.pc = "login"]]
                /\ sent' = sent
           ELSE LET go == Proceed(api, t, call)
                IN  /\ ctask' = [ctask EXCEPT ![t] = go.task]
                    /\ sent' = sent \o go.reqs
    /\ UNCHANGED << api, nlogin, moduleVars, zoneVars, accountVars >>

\* POST /authentication is answered: _login stores user id and token, and
\* the method goes on
LoginOk(t) ==
    /\ ctask[t].pc = "login"
    /\ nlogin' = nlogin + 1
    /\ LET client == [api EXCEPT !._user_id = << ServiceUserId >>,
                                 !._token = << Token(nlogin + 1) >>]
           go == Proceed(client, t, ctask[t])
       IN  /\ api' = client
           /\ ctask' = [ctask EXCEPT ![t] = go.task]
           /\ sent' = sent \o go.reqs
    /\ UNCHANGED << moduleVars, zoneVars, accountVars >>

\* POST /authentication is refused: RothAPIError leaves the method
LoginFail(t) ==
    /\ ctask[t].pc = "login"
    /\ ctask' = [ctask EXCEPT ![t] = [@ EXCEPT !.pc = "idle",
                                               !.status = "RothAPIError"]]
    /\ UNCHANGED << api, sent, nlogin, moduleVars, zoneVars, accountVars >>

\* the GET is answered; set_zone_schedule looks its schedule up and posts
GetOk(t) ==
    /\ ctask[t].pc = "get"
    /\ LET call == ctask[t]
           known == \E k \in 1..Len(ServiceModule.scheds) :
                        ServiceModule.scheds[k].id = call.schedule_id
       IN  IF call.op # "set_zone_schedule"
           THEN /\ ctask' = [ctask EXCEPT ![t] = [call EXCEPT !.pc = "idle",
                                                             !.status = "ok"]]
                /\ sent' = sent
           ELSE IF ~known
           THEN /\ ctask' = [ctask EXCEPT ![t] =
                                [call EXCEPT !.pc = "idle",
                                             !.status = "AssertionError"]]
                /\ sent' = sent
           ELSE /\ ctask' = [ctask EXCEPT ![t] = [call EXCEPT !.pc = "post"]]
                /\ sent' = Append(sent, AuthedRequest(api, t, "POST", call.op,
                                            UrlOf(api, call.op, call.module_id,
                                                  call.zone_id)))
    /\ UNCHANGED << api, nlogin, moduleVars, zoneVars, accountVars >>

\* the GET is refused: RothAPIError leaves the method
GetFail(t) ==
    /\ ctask[t].pc = "get"
    /\ ctask' = [ctask EXCEPT ![t] = [@ EXCEPT !.pc = "idle",
                                               !.status = "RothAPIError"]]
    /\ UNCHANGED << api, sent, nlogin, moduleVars, zoneVars, accountVars >>

\* the POST of a mutation is answered
ClientPostOk(t) ==
    /\ ctask[t].pc = "post"
    /\ ctask' = [ctask EXCEPT ![t] = [@ EXCEPT !.pc = "idle", !.status = "ok"]]
    /\ UNCHANGED << api, sent, nlogin, moduleVars, zoneVars, accountVars >>

\* the POST of a mutation is refused
ClientPostFail(t) ==
    /\ ctask[t].pc = "post"
    /\ ctask' = [ctask EXCEPT ![t] = [@ EXCEPT !.pc = "idle",
                                               !.status = "RothAPIError"]]
    /\ UNCHANGED << api, sent, nlogin, moduleVars, zoneVars, accountVars >>

ClientNext ==
    \/ \E t \in DOMAIN ctask, op \in ClientOps, zone_id \in ClientZoneIds,
          schedule_id \in ClientScheduleIds :
          ClientCall(t, op, ModuleUdid, zone_id, schedule_id)
    \/ \E t \in DOMAIN ctask : LoginOk(t)
    \/ \E t \in DOMAIN ctask : LoginFail(t)
    \/ \E t \in DOMAIN ctask : GetOk(t)
    \/ \E t \in DOMAIN ctask : GetFail(t)
    \/ \E t \in DOMAIN ctask : ClientPostOk(t)
    \/ \E t \in DOMAIN ctask : ClientPostFail(t)

SpecClient == ClientInit /\ [][ClientNext]_vars

\* ------------------------------------------------------------ claims
\* task t returns from a public call in this step, without an exception
Finishes(t) ==
    /\ task'[t].pc = "idle"
    /\ task'[t].status = "ok"
    /\ (task[t].pc # "idle" \/ ncalls' = ncalls + 1)

\* the zone ids a set-schedule request lists, in order
ListedIds(req) == [k \in 1..Len(req.data.setInZones) |-> req.data.setInZones[k].zoneId]

\* the set of the elements of a sequence
Range(seq) == {seq[k] : k \in 1..Len(seq)}

\* C1: the zone list set_schedule(S) submits for zone Z holds exactly the
\* zones that, in the module state the call fetched, are in globalSchedule
\* mode with schedule_index = S.index, and Z itself; each of them once.
C1_Membership ==
    \A t \in callers :
        (task[t].op = "set_schedule" /\ task[t].pc \in {"posting", "posted"}) =>
            LET m == task[t].data
                S == schedule(m.scheds, task[t].ikey)[1]
                Z == ZoneId(task[t].target[1])
                ids == ListedIds(task[t].request)
            IN  /\ Range(ids) =
                     {m.zones[k].id : k \in
                         {j \in 1..Len(m.zones) :
                             m.zones[j].mode = "globalSchedule"
                             /\ m.zones[j].schedule_index = S.index}} \cup {Z}
                /\ Cardinality(Range(ids)) = Len(ids)

\* C1 witness: a zone that was in constant-temperature mode is submitted
\* together with a zone that was already on the schedule
C1_Witness ==
    \E t \in callers :
        /\ task[t].op = "set_schedule"
        /\ task[t].pc = "posting"
        /\ Len(task[t].request.data.setInZones) = 2
        /\ \E k \in 1..Len(task[t].data.zones) :
              /\ task[t].data.zones[k].id = ZoneId(task[t].target[1])
              /\ task[t].data.zones[k].mode = "constantTemp"

\* a view, and the schedule bound to it, come from snapshots parsed after n
BuiltAfter(z, n) ==
    /\ z._raw_data.snap > n
    /\ \A k \in 1..Len(z._schedule) : z._schedule[k].snap > n

\* C2: with one caller, a mutation that returned leaves the cache reset
\* (timestamp 0, no views, no schedules), and the next read without refresh
\* fetches and returns only what was fetched after the mutation.
C2_MutationInvalidates ==
    /\ invalidated = "mutation" =>
          (_last_fetched = 0 /\ _zones = << >> /\ _schedules = << >>)
    /\ \A t \in callers :
          (task[t].op \in ReadOps /\ task[t].status = "ok"
           /\ task[t].after = "mutation" /\ ~task[t].refresh) =>
              /\ task[t].nfetch >= 1
              /\ \A k \in 1..Len(task[t].rviews) :
                    BuiltAfter(task[t].rviews[k], task[t].snap0)
              /\ \A k \in 1..Len(task[t].rscheds) :
                    task[t].rscheds[k].snap > task[t].snap0

\* C2 witness: zones() right after a mutation returned views
C2_Witness ==
    \E t \in callers :
        /\ task[t].op = "zones" /\ task[t].status = "ok"
        /\ task[t].after = "mutation" /\ ~task[t].refresh
        /\ task[t].rviews # << >>
        /\ now = StartTime

\* C3: the read that follows invalidate_cache() (called directly, or by a
\* mutation) makes exactly one remote fetch.
C3_ExactlyOneFetch ==
    \A t \in callers :
        (task[t].op \in ReadOps /\ task[t].status = "ok" /\ task[t].after # "none") =>
            task[t].nfetch = 1

\* C4: a non-forced _data() at most cache_validity seconds after the last
\* fetch sends no request.
C4_NoFetchWithinWindow ==
    [][\A t \in callers :
          (/\ task[t].pc = "data"
           /\ ~task[t].data_refresh
           /\ _last_fetched # 0
           /\ now - _last_fetched <= cache_validity * MsPerSecond)
          => task'[t].pc # "fetching"]_vars

\* C5: a non-forced read made more than the validity window after the last
\* fetch makes exactly one fetch and returns what that fetch brought.
C5_RefetchAfterWindow ==
    \A t \in callers :
        (task[t].op \in ReadOps /\ task[t].status = "ok"
         /\ task[t].expired /\ ~task[t].refresh) =>
            /\ task[t].nfetch = 1
            /\ \A k \in 1..Len(task[t].rviews) :
                  BuiltAfter(task[t].rviews[k], task[t].snap0)
            /\ \A k \in 1..Len(task[t].rscheds) :
                  task[t].rscheds[k].snap > task[t].snap0

\* C6: zones / zone / zone_by_name with refresh=True fetch, and return only
\* views of the snapshot fetched by that call.
C6_RefreshReturnsFresh ==
    \A t \in callers :
        (task[t].op \in ZoneOps /\ task[t].status = "ok" /\ task[t].refresh) =>
            /\ task[t].nfetch >= 1
            /\ \A k \in 1..Len(task[t].rviews) :
                  task[t].rviews[k]._raw_data.snap > task[t].snap0

\* C7: zones(include_off=True) returns one view per zone record of the
\* stored snapshot.
C7_OneViewPerRecord ==
    [][\A t \in callers :
          (Finishes(t) /\ task'[t].op = "zones" /\ task'[t].include_off) =>
              /\ Len(task'[t].rviews) = Len(_raw_data'.zones)
              /\ \A k \in 1..Len(task'[t].rviews) :
                    k <= Len(_raw_data'.zones)
                    /\ task'[t].rviews[k]._raw_data.id = _raw_data'.zones[k].id]_vars

\* C8: zones(include_off=False) returns the views of the module's list whose
\* zone state is not "zoneOff", and no other; zone(id) and zone_by_name(name)
\* still return a view when the zone of that id or name is switched off.
C8_EnabledFilter ==
    [][\A t \in callers :
          Finishes(t) =>
              /\ (task'[t].op = "zones" /\ ~task'[t].include_off) =>
                    /\ \A k \in 1..Len(task'[t].rviews) :
                          task'[t].rviews[k]._raw_data.zone_state # "zoneOff"
                    /\ \A k \in 1..Len(_zones') :
                          _zones'[k]._raw_data.zone_state # "zoneOff"
                              => _zones'[k] \in Range(task'[t].rviews)
                    /\ Range(task'[t].rviews) \subseteq Range(_zones')
              /\ (task'[t].op = "zone"
                  /\ \E k \in 1..Len(_zones') :
                        _zones'[k]._raw_data.id = task'[t].ikey) =>
                    /\ task'[t].rviews # << >>
                    /\ task'[t].rviews[1]._raw_data.id = task'[t].ikey
              /\ (task'[t].op = "zone_by_name"
                  /\ \E k \in 1..Len(_zones') :
                        _zones'[k]._raw_data.name = task'[t].skey) =>
                    /\ task'[t].rviews # << >>
                    /\ task'[t].rviews[1]._raw_data.name = task'[t].skey]_vars

\* C8 witness: zone(id) returned the view of a zone that is switched off
C8_Witness ==
    \E t \in callers :
        /\ task[t].op = "zone" /\ task[t].status = "ok"
        /\ task[t].rviews # << >>
        /\ task[t].rviews[1]._raw_data.zone_state = "zoneOff"
        /\ Len(_zones) = 2

\* what a record says, whichever response it was parsed from
Content(rec) == [f \in DOMAIN rec \ {"snap"} |-> rec[f]]

\* the least of a set of positions
Min(S) == CHOOSE x \in S : \A y \in S : x <= y

\* what the first record of a sequence with the key says, in a sequence
\* of its own: << >> when no record has the key
FirstWith(seq, P(_)) ==
    LET I == {k \in 1..Len(seq) : P(seq[k])}
    IN  IF I = {} THEN << >> ELSE << Content(seq[Min(I)]) >>

\* C9: a lookup returns None when no element of the stored snapshot has the
\* key, and else the first element of the snapshot's sequence with the key.
C9_LookupFirstMatch ==
    [][\A t \in callers :
          Finishes(t) =>
              LET key == task'[t].ikey
                  name == task'[t].skey
                  ById(x) == x.id = key
                  ByName(x) == x.name = name
                  ByIdx(x) == x.index = key
                  records == [k \in 1..Len(task'[t].rviews) |->
                                 Content(task'[t].rviews[k]._raw_data)]
                  schedules == [k \in 1..Len(task'[t].rscheds) |->
                                   Content(task'[t].rscheds[k])]
              IN  /\ task'[t].op = "zone" =>
                        records = FirstWith(_raw_data'.zones, ById)
                  /\ task'[t].op = "zone_by_name" =>
                        records = FirstWith(_raw_data'.zones, ByName)
                  /\ task'[t].op = "schedule" =>
                        schedules = FirstWith(_raw_data'.scheds, ById)
                  /\ task'[t].op = "schedule_by_name" =>
                        schedules = FirstWith(_raw_data'.scheds, ByName)
                  /\ task'[t].op = "schedule_by_idx" =>
                        schedules = FirstWith(_raw_data'.scheds, ByIdx)]_vars

\* the starts of the intervals of a request, both periods
RequestStarts(req) ==
    {req.data.schedule.p0Intervals[k].start : k \in 1..Len(req.data.schedule.p0Intervals)}
    \cup
    {req.data.schedule.p1Intervals[k].start : k \in 1..Len(req.data.schedule.p1Intervals)}

\* C10: no interval of a submitted set-schedule request starts at 6100.
C10_NoSentinel ==
    \A t \in callers :
        task[t].request.kind = "set_schedule" =>
            Sentinel \notin RequestStarts(task[t].request)

\* C10 witness: a request is submitted for a schedule that has an empty
\* interval between two others
C10_Witness ==
    \E t \in callers :
        /\ task[t].request.kind = "set_schedule"
        /\ task[t].pc = "posted"
        /\ task[t].request.data.schedule.id = 1
        /\ Len(task[t].request.data.schedule.p0Intervals) = 2

\* the intervals of a period that are not empty ones, in their order
RECURSIVE RealIntervals(_)
RealIntervals(seq) ==
    IF seq = << >> THEN << >>
    ELSE IF Head(seq).start = Sentinel THEN RealIntervals(Tail(seq))
         ELSE << [start |-> Head(seq).start, stop |-> Head(seq).stop,
                  temp |-> Head(seq).temp] >> \o RealIntervals(Tail(seq))

\* C11: the request of set_schedule carries the name, id, index, days and
\* setback temperatures of the schedule record the call fetched, unchanged,
\* and for each period the intervals that do not start at 6100, in order.
C11_PayloadPassThrough ==
    \A t \in callers :
        (task[t].op = "set_schedule" /\ task[t].pc \in {"posting", "posted"}) =>
            LET S == schedule(task[t].data.scheds, task[t].ikey)[1]
                d == task[t].request.data
            IN  /\ d.scheduleName = S.name
                /\ d.schedule.id = S.id
                /\ d.schedule.index = S.index
                /\ d.schedule.p0Days = S.p0_days
                /\ d.schedule.p1Days = S.p1_days
                /\ d.schedule.p0SetbackTemp = S.p0_setback_temp
                /\ d.schedule.p1SetbackTemp = S.p1_setback_temp
                /\ d.schedule.p0Intervals = RealIntervals(S.p0_intervals)
                /\ d.schedule.p1Intervals = RealIntervals(S.p1_intervals)

\* C11 witness: a request for the schedule whose id is 0 and index 1, whose
\* second period has an empty interval before a real one
C11_Witness ==
    \E t \in callers :
        /\ task[t].op = "set_schedule"
        /\ task[t].pc = "posting"
        /\ task[t].request.data.schedule.id = 0
        /\ task[t].request.data.schedule.index = 1
        /\ task[t].request.data.schedule.p0Intervals = << >>
        /\ Len(task[t].request.data.schedule.p1Intervals) = 1

\* C12: set_schedule with a schedule id that no global schedule of the
\* fetched module has ends with an error; no request was or is submitted,
\* the remote is not changed, and the cache is as the call found it.
C12_UnknownScheduleFails ==
    [][\A t \in callers :
          (/\ task[t].op = "set_schedule"
           /\ task[t].pc = "fetched"
           /\ schedule(task[t].resp.scheds, task[t].ikey) = << >>
           /\ task'[t] # task[t])
          => /\ task'[t].pc = "idle"
             /\ task'[t].status \notin {"ok", "running"}
             /\ task[t].request = NoPayload
             /\ task'[t].request = NoPayload
             /\ remote' = remote
             /\ Cache' = task[t].before]_vars

\* C12 witness: set_schedule has failed on the assert while the module
\* holds a snapshot and views
C12_Witness ==
    \E t \in callers :
        /\ task[t].op = "set_schedule"
        /\ task[t].pc = "idle"
        /\ task[t].status = "AssertionError"
        /\ task[t].ikey = 1234
        /\ _zones # << >>
        /\ _last_fetched # 0

\* C13: when the GET or the POST of set_temperature / set_schedule fails,
\* the call ends with the error and the snapshot, the timestamp and the
\* lists are what they were when the call began.
C13_FailedMutationKeepsCache ==
    [][\A t \in callers :
          (/\ task[t].op \in MutationOps
           /\ task[t].pc \in {"fetching", "posting", "posted"}
           /\ task'[t].pc = "idle"
           /\ task'[t].status # "ok")
          => /\ task'[t].status = "error"
             /\ Cache' = task[t].before
             /\ invalidated' = invalidated]_vars

\* C13 witness: the POST of set_temperature has failed while the module
\* holds a snapshot and views
C13_Witness ==
    \E t \in callers :
        /\ task[t].op = "set_temperature"
        /\ task[t].pc = "idle"
        /\ task[t].status = "error"
        /\ _zones # << >>
        /\ _last_fetched # 0

\* C14: when a GET fails during a read, the read ends with the error and
\* the snapshot, the timestamp and the lists are what they were when the
\* read began.
C14_FailedReadKeepsCache ==
    [][\A t \in callers :
          (/\ task[t].op \in ReadOps
           /\ task[t].pc = "fetching"
           /\ task'[t].pc = "idle"
           /\ task'[t].status # "ok")
          => /\ task'[t].status = "error"
             /\ Cache' = task[t].before]_vars

\* what the records of a sequence say
Contents(seq) == {Content(seq[k]) : k \in 1..Len(seq)}

\* C15: while no call is in progress, every view of the module's zone list
\* shows a zone record of the stored snapshot, the schedule bound to it is a
\* schedule of that snapshot, and the module's schedule list, once loaded,
\* is the snapshot's schedule sequence.
C15_ViewsOfOneSnapshot ==
    (\A t \in callers : task[t].pc = "idle") =>
        /\ \A k \in 1..Len(_zones) :
              /\ Content(_zones[k]._raw_data) \in Contents(_raw_data.zones)
              /\ Contents(_zones[k]._schedule) \subseteq Contents(_raw_data.scheds)
        /\ _schedules # << >> =>
              [k \in 1..Len(_schedules) |-> Content(_schedules[k])]
                = [k \in 1..Len(_raw_data.scheds) |-> Content(_raw_data.scheds[k])]

\* what Zone.schedule of a view says: << >> for None
ScheduleOf(z) == [k \in 1..Len(ZoneSchedule(z)) |-> Content(ZoneSchedule(z)[k])]

\* what the module's global schedule with the index of the view's zone
\* says, << >> when there is none
Resolved(z) ==
    LET ByIdx(x) == x.index = z._raw_data.schedule_index
    IN  FirstWith(remote.scheds, ByIdx)

\* C16: Zone.schedule of every view is the resolved global schedule when
\* the zone's mode is globalSchedule, and None in every other mode.
C16_ScheduleOnlyForGlobalMode ==
    \A k \in 1..Len(_zones) :
        ScheduleOf(_zones[k]) =
            IF ZoneMode(_zones[k]) = "globalSchedule" THEN Resolved(_zones[k])
            ELSE << >>

C18_BoundByIndex ==
    /\ \A k \in 1..Len(_zones) :
          ZoneMode(_zones[k]) = "globalSchedule" =>
              /\ [j \in 1..Len(_zones[k]._schedule) |-> Content(_zones[k]._schedule[j])]
                    = Resolved(_zones[k])
              /\ \A j \in 1..Len(_zones[k]._schedule) :
                    _zones[k]._schedule[j].index = _zones[k]._raw_data.schedule_index
    /\ \A t \in callers :
          (task[t].op = "set_schedule" /\ task[t].pc \in {"posting", "posted"}) =>
              \A k \in 1..Len(task[t].data.zones) :
                  LET r == task[t].data.zones[k]
                  IN  r.id # ZoneId(task[t].target[1]) =>
                        (r.id \in Range(ListedIds(task[t].request))
                           <=> (r.mode = "globalSchedule"
                                /\ r.schedule_index = task[t].request.data.schedule.index))

\* C18 witness: a zone with schedule_index 1 is bound to the schedule with
\* index 1 and id 0, in a module that has a schedule with id 1 as well
C18_Witness ==
    \E k \in 1..Len(_zones) :
        /\ ZoneMode(_zones[k]) = "globalSchedule"
        /\ _zones[k]._raw_data.schedule_index = 1
        /\ _zones[k]._schedule # << >>
        /\ _zones[k]._schedule[1].id = 0
        /\ \E j \in 1..Len(_raw_data.scheds) : _raw_data.scheds[j].id = 1

\* seq is the beginning of seq2
IsPrefix(seq, seq2) ==
    Len(seq) <= Len(seq2) /\ SubSeq(seq2, 1, Len(seq)) = seq

\* C19: no step writes into a snapshot or into a view that exists.  The
\* steps of set_temperature, set_schedule and invalidate_cache leave the
\* views and schedules the caller holds, and the stored snapshot, as they
\* are; a fetch stores a new snapshot object; the module's zone list is
\* emptied or appended to, its schedule list is emptied or becomes the
\* schedule sequence of the stored snapshot.
C19_ViewsNeverWritten ==
    [][/\ \A t \in callers :
             (task'[t] # task[t]
              /\ task'[t].op \in MutationOps \cup {"invalidate_cache"})
             => /\ task'[t].rviews = task[t].rviews
                /\ task'[t].rscheds = task[t].rscheds
                /\ (task[t].target # << >> /\ task'[t].target # << >>)
                      => task'[t].target = task[t].target
                /\ _raw_data' = _raw_data
       /\ _raw_data' = _raw_data \/ _raw_data'.id > _raw_data.id
       /\ _zones' = << >> \/ IsPrefix(_zones, _zones')
       /\ \/ _schedules' \in {<< >>, _schedules}
          \/ _schedules' = _raw_data'.scheds]_vars

\* C19 witness: after set_temperature returned, the caller holds a view of
\* the zone that still shows the mode the zone had before
C19_Witness ==
    \E t \in callers :
        /\ task[t].op = "set_temperature"
        /\ task[t].pc = "idle"
        /\ task[t].status = "ok"
        /\ \E k \in 1..Len(task[t].rviews), j \in 1..Len(remote.zones) :
              /\ remote.zones[j].id = ZoneId(task[t].rviews[k])
              /\ remote.zones[j].mode = "constantTemp"
              /\ ZoneMode(task[t].rviews[k]) = "globalSchedule"

\* C20: set_temperature submits temperature * 10 truncated toward zero
\* (22.5 -> 225, 18.04 -> 180, -0.55 -> -5), addressed to the module, the
\* id of the zone's mode record and the zone.
C20_TemperatureEncoding ==
    \A t \in callers :
        (task[t].op = "set_temperature" /\ task[t].pc \in {"posting", "posted"}) =>
            LET hundredths == task[t].ikey
                tenths == task[t].request.data.setTemperature
                self == task[t].target[1]
            IN  /\ hundredths >= 0 =>
                      (tenths * 10 <= hundredths /\ hundredths < (tenths + 1) * 10)
                /\ hundredths < 0 =>
                      (tenths * 10 >= hundredths /\ hundredths > (tenths - 1) * 10)
                /\ hundredths = 2250 => tenths = 225
                /\ hundredths = 1804 => tenths = 180
                /\ task[t].request.module_id = ModuleUdid
                /\ task[t].request.data.id = self._raw_data.mode_id
                /\ task[t].request.data.parentId = self._raw_data.id
                /\ task[t].request.data.mode = "constantTemp"

\* C20 witness: a temperature below zero that is not a whole tenth is
\* submitted
C20_Witness ==
    \E t \in callers :
        /\ task[t].op = "set_temperature"
        /\ task[t].pc = "posting"
        /\ task[t].ikey = -55
        /\ task[t].request.data.setTemperature = -5

\* C21: Zone.temperature is the reading divided by 10 when the zone is
\* enabled and has a reading (a reading of 0 gives 0.0), and None when the
\* zone is not enabled.
C21_TemperatureIfEnabled ==
    (zview # << >> /\ got.attr = "temperature") =>
        LET z == zview[1]
            cur == z._raw_data.current_temperature
        IN  /\ got.status = "ok"
            /\ (enabled(z) /\ cur # << >>) =>
                  /\ got.value # << >>
                  /\ got.value[1].neg = (cur[1] < 0)
                  /\ (got.value[1].whole * 10 + got.value[1].tenth)
                        = (IF cur[1] < 0 THEN -cur[1] ELSE cur[1])
                  /\ got.value[1].tenth \in 0..9
            /\ ~enabled(z) => got.value = << >>

\* C24: every attribute of a view among temperature, target_temperature,
\* humidity, mode, enabled, relay_on, algorithm, signal_strength and alarm
\* can be read; signal_strength is the record's signal strength, and alarm
\* is None for a zone whose state is "noAlarm".
C24_SignalStrengthAndAlarm ==
    (zview # << >> /\ got.attr \in {"temperature", "target_temperature", "humidity",
                                   "mode", "enabled", "relay_on", "algorithm",
                                   "signal_strength", "alarm"}) =>
        /\ got.status = "ok"
        /\ got.attr = "signal_strength" =>
              got.value = zview[1]._raw_data.signal_strength
        /\ (got.attr = "alarm" /\ zview[1]._raw_data.zone_state = "noAlarm") =>
              got.value = << >>

\* the first module of a list with the id, in a sequence of its own
FirstModule(modules, module_id) ==
    LET I == {k \in 1..Len(modules) : modules[k].id = module_id}
    IN  IF I = {} THEN << >> ELSE << modules[Min(I)] >>

\* C22: module(module_id) returns the first Module of the list whose id is
\* module_id, None when there is none; modules() and module() ask the
\* client once when the cached list is empty or refresh is set, and else
\* return the cached Module objects without asking it.
C22_ModuleLookupAndCache ==
    (acall.pc = "idle" /\ acall.status = "ok") =>
        /\ acall.op = "module" =>
              acall.result = FirstModule(tsl._modules, acall.module_id)
        /\ acall.op = "modules" => acall.result = tsl._modules
        /\ acall.nget = (IF acall.cached = << >> \/ acall.refresh THEN 1 ELSE 0)
        /\ acall.nget = 0 => tsl._modules = acall.cached
        /\ acall.nget = 1 =>
              /\ [k \in 1..Len(tsl._modules) |->
                     AccountModuleModel(tsl._modules[k].id, tsl._modules[k].name)]
                    = account
              /\ \A k \in 1..Len(tsl._modules) : tsl._modules[k].made = nlist

\* C22 witness: module() found, without asking the client, the first of two
\* cached modules with one id
C22_Witness ==
    /\ acall.pc = "idle" /\ acall.status = "ok"
    /\ acall.op = "module" /\ ~acall.refresh
    /\ acall.nget = 0
    /\ Len(tsl._modules) = 2
    /\ tsl._modules[2].id = acall.module_id
    /\ acall.result # << >>
    /\ acall.result[1].name = "Barn"

C25_PairReplacedTogether ==
    [][/\ _raw_data' # _raw_data =>
             (_last_fetched' = now' /\ _last_fetched' # 0)
       /\ (_last_fetched' # _last_fetched /\ _last_fetched' # 0) =>
             _raw_data' # _raw_data]_vars

\* C25 witness: while a reader waits for its answer, the other one has
\* replaced the snapshot and the timestamp the reader found by later ones
C25_Witness ==
    \E t \in callers :
        /\ task[t].op = "zones"
        /\ task[t].pc = "fetching"
        /\ task[t].before.raw # NoData
        /\ task[t].before.last # 0
        /\ _raw_data.id > task[t].before.raw.id
        /\ _last_fetched > task[t].before.last

\* the zone records task t builds its views from were fetched before the
\* last mutation returned, that is before its invalidate_cache()
ReadsOld(t) ==
    /\ task[t].op = "zones"
    /\ mutSnap > 0
    /\ \/ (task[t].pc = "fetched" /\ task[t].frame = "zones"
            /\ task[t].resp.id <= mutSnap)
       \/ (task[t].pc \in {"data", "fetched"} /\ task[t].frame = "schedules"
            /\ task[t].data.id <= mutSnap)

\* a view of the list shows a record fetched before the last mutation returned
HasOldView(zl) == \E k \in 1..Len(zl) : zl[k]._raw_data.snap <= mutSnap

\* C26: a fetch of zones() that was answered before a mutation's
\* invalidate_cache() is still stored when it completes, with the time of
\* its completion; the call leaves views of the records fetched before the
\* invalidation in the zone list; and the next zones() without refresh
\* returns that list without a fetch.
C26_InvalidationLost ==
    [][\A t \in callers :
          /\ (ReadsOld(t) /\ task[t].pc = "fetched" /\ task[t].frame = "zones"
              /\ task'[t] # task[t])
             => /\ _raw_data' = task[t].resp
                /\ _last_fetched' = now
                /\ _last_fetched' # 0
          /\ (ReadsOld(t) /\ Finishes(t))
             => /\ HasOldView(_zones')
                /\ task'[t].rviews = _zones'
                /\ _last_fetched' # 0
          /\ (task[t].pc = "idle" /\ ncalls' = ncalls + 1 /\ task'[t] # task[t]
              /\ task'[t].op = "zones" /\ ~task'[t].refresh
              /\ mutSnap > 0 /\ HasOldView(_zones))
             => /\ Finishes(t)
                /\ task'[t].nfetch = 0
                /\ task'[t].rviews = _zones
                /\ nsnap' = nsnap]_vars

\* C26 witness: the first zones() after set_temperature returned was served,
\* without a fetch, a view that shows the zone in the mode it had before
C26_Witness ==
    \E t \in callers :
        /\ task[t].op = "zones" /\ task[t].status = "ok" /\ ~task[t].refresh
        /\ task[t].after = "mutation"
        /\ task[t].nfetch = 0
        /\ \E k \in 1..Len(task[t].rviews), j \in 1..Len(remote.zones) :
              /\ task[t].rviews[k]._raw_data.snap <= mutSnap
              /\ remote.zones[j].id = ZoneId(task[t].rviews[k])
              /\ remote.zones[j].mode = "constantTemp"
              /\ ZoneMode(task[t].rviews[k]) = "globalSchedule"

\* the ids of the zones that are on the global schedule with index idx
OnSchedule(zs, idx) ==
    {zs[k].id : k \in {j \in 1..Len(zs) :
                          zs[j].mode = "globalSchedule" /\ zs[j].schedule_index = idx}}

\* C27: when the request of set_schedule(S) for zone Z2 is applied while
\* zone Z1 is on S by the request of another task's set_schedule(S), and
\* the module state the call for Z2 fetched did not yet show Z1 on S, then
\* Z2 is on S and Z1 is on S no more; and set_schedule returns without an
\* error all the same.
C27_OverlappingReassignmentsClobber ==
    [][\A t1, t2 \in callers :
          /\ (/\ t1 # t2
              /\ task[t2].op = "set_schedule"
              /\ task[t2].pc = "posting"
              /\ task'[t2].pc = "posted"
              /\ task[t1].op = "set_schedule"
              /\ task[t1].request.kind = "set_schedule"
              /\ task[t1].pc \in {"posted", "idle"}
              /\ task[t1].request.data.schedule.index
                    = task[t2].request.data.schedule.index
              /\ task[t1].request.zone_id # task[t2].request.zone_id
              /\ task[t1].request.zone_id
                    \in OnSchedule(remote.zones, task[t2].request.data.schedule.index)
              /\ task[t1].request.zone_id
                    \notin OnSchedule(task[t2].data.zones,
                                      task[t2].request.data.schedule.index))
             => LET on == OnSchedule(remote'.zones, task[t2].request.data.schedule.index)
                IN  /\ task[t2].request.zone_id \in on
                    /\ task[t1].request.zone_id \notin on
          /\ (task[t2].op = "set_schedule" /\ task[t2].pc = "posted"
              /\ task'[t2] # task[t2])
             => (task'[t2].pc = "idle" /\ task'[t2].status = "ok")]_vars

\* C27 witness: two tasks have moved the Kitchen and the Hall onto the same
\* schedule, both calls have returned without an error, and only one of the
\* two zones is on the schedule
C27_Witness ==
    \E t1, t2 \in callers :
        /\ t1 # t2
        /\ task[t1].op = "set_schedule" /\ task[t1].status = "ok"
        /\ task[t2].op = "set_schedule" /\ task[t2].status = "ok"
        /\ task[t1].request.data.schedule.index = task[t2].request.data.schedule.index
        /\ task[t1].request.zone_id # task[t2].request.zone_id
        /\ task[t1].request.zone_id
              \notin OnSchedule(remote.zones, task[t1].request.data.schedule.index)
        /\ task[t2].request.zone_id
              \in OnSchedule(remote.zones, task[t1].request.data.schedule.index)

\* C30: after two zones() calls without refresh that both began on the
\* empty cache of a new Module and both fetched, the zone list holds one
\* view per zone record of the stored snapshot, in the order of the records,
\* and each caller was returned as many views as there are records.
C30_OverlappingZonesBuildOnce ==
    (/\ ncalls = 2
     /\ \A t \in callers :
           /\ task[t].pc = "idle"
           /\ task[t].op = "zones" /\ ~task[t].refresh
           /\ task[t].status = "ok"
           /\ task[t].nfetch >= 1)
    => /\ Len(_zones) = Len(_raw_data.zones)
       /\ \A k \in 1..Len(_zones) :
             k <= Len(_raw_data.zones) /\ ZoneId(_zones[k]) = _raw_data.zones[k].id
       /\ \A t \in callers : Len(task[t].rviews) = Len(_raw_data.zones)

\* C28: with one caller, whose calls follow one another, the request of
\* set_schedule(S) for zone Z lists Z and every zone that is on S at the
\* remote when the request is applied, so that applying it puts Z on S and
\* takes no zone from S.
C28_SequentialReassignmentsKeep ==
    [][\A t \in callers :
          (task[t].op = "set_schedule" /\ task[t].pc = "posting"
           /\ task'[t].pc = "posted")
          => LET idx == task[t].request.data.schedule.index
                 Z == task[t].request.zone_id
             IN  /\ OnSchedule(remote.zones, idx) \cup {Z}
                       \subseteq Range(ListedIds(task[t].request))
                 /\ OnSchedule(remote'.zones, idx)
                       = OnSchedule(remote.zones, idx) \cup {Z}]_vars

\* C28 witness: the Hall has been moved onto the schedule with index 1 after
\* the Kitchen, which the caller's views still show on the schedule with
\* index 0, and both are on it
C28_Witness ==
    \E t \in callers :
        /\ task[t].op = "set_schedule" /\ task[t].pc = "posted"
        /\ task[t].request.data.schedule.index = 1
        /\ task[t].request.zone_id = 2
        /\ OnSchedule(remote.zones, 1) = {1, 2}
        /\ \A k \in 1..Len(task[t].rviews) :
              task[t].rviews[k]._raw_data.schedule_index = 0

\* C29: while set_schedule is under way, the module state its request is
\* built from was fetched during the call (it is not the snapshot the
\* Module has stored), the request is the one that state and the schedule
\* found in it give, and with one caller the stored snapshot, the
\* timestamp and the lists are what they were when the call began.
C29_SetScheduleReadsRemote ==
    \A t \in callers :
        (task[t].op = "set_schedule" /\ task[t].pc # "idle") =>
            /\ Cache = task[t].before
            /\ task[t].pc \in {"posting", "posted"} =>
                  /\ task[t].data.id > task[t].snap0
                  /\ task[t].data.id > _raw_data.id
                  /\ schedule(task[t].data.scheds, task[t].ikey) # << >>
                  /\ task[t].request =
                        SetScheduleRequest(
                            task[t].data, ZoneId(task[t].target[1]),
                            schedule(task[t].data.scheds, task[t].ikey)[1])

\* C29 witness: set_schedule submits a request while the snapshot the Module
\* has stored shows the zones in other modes than the state just fetched
C29_Witness ==
    \E t \in callers :
        /\ task[t].op = "set_schedule" /\ task[t].pc = "posting"
        /\ _raw_data # NoData
        /\ \E k \in 1..Len(_raw_data.zones) :
              /\ k <= Len(task[t].data.zones)
              /\ _raw_data.zones[k].mode # task[t].data.zones[k].mode

\* C31: RothAPI never makes a request with an authorization header while
\* its token is unset: every such request of modules, module,
\* set_zone_temperature and set_zone_schedule carries the bearer token of a
\* login the service has answered, and the user id of that login in its url.
C31_LoginBeforeAuthenticatedRequest ==
    \A k \in 1..Len(sent) :
        \E n \in 1..nlogin :
            LET client == [api EXCEPT !._user_id = << ServiceUserId >>,
                                     !._token = << Token(n) >>]
            IN  /\ sent[k].authorization = Authorization(client)
                /\ sent[k].url = UrlOf(client, sent[k].op, ModuleUdid, 1)

====
